---------------------------- MODULE Spec2Model ----------------------------
(***************************************************************************)
(* DockAI front end: the docking-result viewer (MoleculeViewer, both       *)
(* variants), the visualize page (DockingVisualizer) and the upload        *)
(* component (FileUploader), as one state machine.                         *)
(*                                                                         *)
(* One page of the Next.js application is mounted at a time (route).       *)
(*   "visualize" : src/frontend2/src/app/visualize/page.tsx, which hosts   *)
(*                 src/frontend2/src/components/MoleculeViewer.tsx (the    *)
(*                 variant with a <select>, called "select" below);        *)
(*   "upload"    : an upload page (src/frontend2/src/app/upload/page.tsx   *)
(*                 or src/unnamed/part_006; they differ in the             *)
(*                 allowedFileTypes they pass) with a FileUploader.        *)
(* Two component trees exist (variant).  "src" is                          *)
(* src/frontend2/src/components: FileUploader.tsx hosts the "select"       *)
(* MoleculeViewer beside it.  "root" is the FileUploader of                *)
(* src/unnamed/part_005 (no cid, no signature), which hosts its sibling    *)
(* ./MoleculeViewer, taken to be src/frontend2/components/                 *)
(* MoleculeViewer.tsx (the variant with the grid, called "grid" below).    *)
(*                                                                         *)
(* Numbers.  Binding affinities are modelled in tenths of kcal/mol         *)
(* (-7.2 is -72): the arithmetic of getEnergyColor is then exact rational  *)
(* arithmetic on integers.  Array indices are 0-based as in the source;    *)
(* At(s, i) reads element i of a TLA+ sequence the way s[i] does in        *)
(* JavaScript.                                                             *)
(***************************************************************************)
EXTENDS Integers, Sequences, FiniteSets, TLC

VARIABLES
    route,              \* the page that is mounted: "visualize" or "upload"
    variant,            \* the component tree mounted: "src" or "root"
    allowedFileTypes,   \* FileUploader prop, given by the upload page
    resultFile,         \* DockingVisualizer state (visualize/page.tsx:7)
    pdbqtFile,          \* DockingVisualizer state (visualize/page.tsx:8)
    loading,            \* DockingVisualizer state (visualize/page.tsx:10)
    error,              \* DockingVisualizer state (visualize/page.tsx:11)
    files,              \* FileUploader state (FileUploader.tsx:18)
    uploading,          \* FileUploader state (FileUploader.tsx:19)
    cid,                \* FileUploader state (FileUploader.tsx:20)
    solanaSignature,    \* FileUploader state (FileUploader.tsx:21)
    uploadProgress,     \* FileUploader state (FileUploader.tsx:22)
    pdfUrl,             \* FileUploader state (FileUploader.tsx:24)
    intervalActive,     \* the setInterval timer of handleUpload is running
    visualizationData,  \* the mounted page's visualizationData state
    activeModel,        \* MoleculeViewer state (MoleculeViewer.tsx:166)
    showGrid,           \* MoleculeViewer state, grid variant (:167)
    scene,              \* renderer calls issued by the last Mol3DViewer effect
    backend,            \* the server's processing of one uploaded file pair
    screen,             \* what MoleculeViewer returned when last rendered
    mol3d,              \* the Mol3DViewer effects: imports pending, canvases
    inFlight,           \* requests of the mounted page awaiting their response
    lastOp              \* history: the handler that ran last, with its argument

pageVars     == <<resultFile, pdbqtFile, loading, error>>
uploaderVars == <<files, uploading, cid, solanaSignature, uploadProgress,
                  pdfUrl, intervalActive>>
viewerVars   == <<activeModel, showGrid>>
vars == <<route, variant, allowedFileTypes, pageVars, uploaderVars, visualizationData, viewerVars,
          scene, backend, screen, mol3d, inFlight, lastOp>>

-----------------------------------------------------------------------------
(* Bounds of the model.                                                    *)

MaxModels == 2          \* poses per dataset a server response carries
MaxPoses == 3           \* poses per dataset in the colour specification
MaxAffinitySpan == 6    \* width, in tenths, of the affinity range there
MaxAtoms == 2           \* atoms per pose in the render specification
MaxBonds == 2           \* bonds per pose in the render specification
MaxDrop == 1            \* files in one drop
MaxScoreLines == 3      \* lines of a score report
MaxStructureLines == 4  \* records of a structure file
MaxBlocks == 2          \* poses of a structure file given to the merger
MaxPending == 3         \* imports of 3dmol awaited at one time

-----------------------------------------------------------------------------
(* JavaScript values.                                                      *)

Null == [null |-> TRUE]         \* null / undefined of an object-valued slot
NaN == 0 - 1                    \* the NaN of a colour channel (channels are >= 0)

At(s, i) == IF i + 1 \in DOMAIN s THEN s[i + 1] ELSE Null

SeqsUpTo(S, n) == UNION {[1..k -> S] : k \in 0..n}

RECURSIVE SeqMin(_)
SeqMin(s) ==
    IF Len(s) = 1 THEN s[1]
    ELSE LET m == SeqMin(Tail(s)) IN IF s[1] < m THEN s[1] ELSE m

RECURSIVE SeqMax(_)
SeqMax(s) ==
    IF Len(s) = 1 THEN s[1]
    ELSE LET m == SeqMax(Tail(s)) IN IF s[1] > m THEN s[1] ELSE m

\* Math.round of the rational p/q, q > 0: the nearest integer, ties upwards.
MathRound(p, q) == (2 * p + q) \div (2 * q)


-----------------------------------------------------------------------------
(* The data model (MoleculeViewer.tsx:28-54) and the datasets a server     *)
(* response can carry.  The front end takes the response as it comes: the  *)
(* summary is a field of its own, not derived from models.                 *)

ScenarioBest == 0 - 72          \* -7.2 kcal/mol, in tenths
CatalogueAffinities == {ScenarioBest, ScenarioBest + 4}

\* Atom serial ids: one more than a pose has atoms, so that an id can be
\* missing from any atom list.
AtomIds == 1..(MaxAtoms + 1)

ElementOf(id) == IF id = 1 THEN "C" ELSE IF id = 2 THEN "N" ELSE "X"

Bond == [atom1 : AtomIds, atom2 : AtomIds]

\* The atom list with the given serial ids; an atom's position in the file
\* gives its coordinates, so two atoms never coincide.
AtomsOf(ids) ==
    [i \in 1..Len(ids) |->
        [id |-> ids[i], element |-> ElementOf(ids[i]),
         x |-> i, y |-> 0, z |-> 0]]

\* The pose every model of the catalogue carries: two atoms, one bond
\* between them and one bond whose second endpoint (atom 3) is missing.
SampleAtoms == AtomsOf(<< 1, 2 >>)
SampleBonds == << [atom1 |-> 1, atom2 |-> 2], [atom1 |-> 2, atom2 |-> 3] >>

\* model_id is the pose number of the docking log, 1-based: it differs from
\* the 0-based position of the model in models.
Model(id, affinity, atoms, bonds) ==
    [model_id |-> id, binding_affinity |-> affinity,
     atoms |-> atoms, bonds |-> bonds]

ModelData(models, best, count) ==
    [models |-> models,
     summary |-> [best_binding_affinity |-> best, model_count |-> count]]

ModelsOf(affinities) ==
    [i \in 1..Len(affinities) |->
        Model(i, affinities[i], SampleAtoms, SampleBonds)]

Datasets ==
    UNION { { ModelData(ModelsOf(a), best, count) :
                best \in CatalogueAffinities,
                count \in {Len(a), Len(a) + 1} } :
            a \in SeqsUpTo(CatalogueAffinities, MaxModels) \ {<<>>} }

-----------------------------------------------------------------------------
(* Affinity colour mapper: MoleculeViewer.getEnergyColor and the range it  *)
(* closes over (components/MoleculeViewer.tsx:178-195).                    *)

WorstRed == 239
WorstGreen == 68
WorstBlue == 68
BestRed == 74
BestGreen == 222
BestBlue == 128

\* The string "#4ade80" without its "#", character by character.
BestColorHex == [hex |-> <<"4", "a", "d", "e", "8", "0">>]

HexValue(c) ==
    CASE c = "0" -> 0 [] c = "1" -> 1 [] c = "2" -> 2 [] c = "3" -> 3
      [] c = "4" -> 4 [] c = "5" -> 5 [] c = "6" -> 6 [] c = "7" -> 7
      [] c = "8" -> 8 [] c = "9" -> 9 [] c = "a" -> 10 [] c = "b" -> 11
      [] c = "c" -> 12 [] c = "d" -> 13 [] c = "e" -> 14 [] c = "f" -> 15

\* The red, green and blue channel a browser reads from a CSS colour: the
\* hexadecimal pairs of "#rrggbb", or the three numbers of "rgb(r, g, b)".
CssChannels(color) ==
    IF "hex" \in DOMAIN color
    THEN << 16 * HexValue(color.hex[1]) + HexValue(color.hex[2]),
            16 * HexValue(color.hex[3]) + HexValue(color.hex[4]),
            16 * HexValue(color.hex[5]) + HexValue(color.hex[6]) >>
    ELSE << color.r, color.g, color.b >>

BindingAffinities(modelData) ==
    [i \in 1..Len(modelData.models) |-> modelData.models[i].binding_affinity]

minEnergy == SeqMin(BindingAffinities(visualizationData))
maxEnergy == SeqMax(BindingAffinities(visualizationData))

\* Variant: the weights of the two colours exchanged.
InterpolateSwapped(num, den, worst, best) ==
    IF den = 0 THEN NaN
    ELSE MathRound(num * best + (den - num) * worst, den)

\* Math.round(normalized * worst + (1 - normalized) * best) with
\* normalized = num / den; 0 / 0 is NaN and Math.round(NaN) is NaN.
Interpolate(num, den, worst, best) ==
    IF den = 0 THEN NaN
    ELSE MathRound(num * worst + (den - num) * best, den)

\* Variant: the worst colour is the amber the comment of :189 speaks of.
RgbAmberWorst(energy) ==
    LET num == energy - minEnergy
        den == maxEnergy - minEnergy
    IN  [r |-> Interpolate(num, den, 245, BestRed),
         g |-> Interpolate(num, den, 158, BestGreen),
         b |-> Interpolate(num, den, 11, BestBlue)]

Rgb(energy) ==
    LET num == energy - minEnergy
        den == maxEnergy - minEnergy
    IN  [r |-> Interpolate(num, den, WorstRed, BestRed),
         g |-> Interpolate(num, den, WorstGreen, BestGreen),
         b |-> Interpolate(num, den, WorstBlue, BestBlue)]

\* Variant: no test for an empty range.
getEnergyColorUnguarded(energy) ==
    [r |-> Interpolate(energy - minEnergy, maxEnergy - minEnergy,
                       WorstRed, BestRed),
     g |-> Interpolate(energy - minEnergy, maxEnergy - minEnergy,
                       WorstGreen, BestGreen),
     b |-> Interpolate(energy - minEnergy, maxEnergy - minEnergy,
                       WorstBlue, BestBlue)]

getEnergyColor(energy) ==
    IF minEnergy = maxEnergy THEN BestColorHex ELSE Rgb(energy)

-----------------------------------------------------------------------------
(* What MoleculeViewer puts on the screen.                                 *)

\* The viewer is mounted when its host renders it: the visualize page
\* whenever it holds data (page.tsx:130), FileUploader in renderResults
\* (FileUploader.tsx:359-361, 328).
ViewerMounted ==
    IF route = "visualize"
    THEN visualizationData # Null
    ELSE ~uploading /\ visualizationData # Null

ViewerVariant ==
    IF route = "upload" /\ variant = "root" THEN "grid" ELSE "select"

TypeError == [threw |-> "TypeError"]

\* Variant: the summary recomputed from models.
SummaryBoxRecomputed ==
    [bestEnergy |-> SeqMin(BindingAffinities(visualizationData)),
     totalModels |-> Len(visualizationData.models)]

\* Grid variant, the summary box (components/MoleculeViewer.tsx:222-229).
SummaryBox ==
    [bestEnergy |-> visualizationData.summary.best_binding_affinity,
     totalModels |-> visualizationData.summary.model_count]

\* Variant: the click selects the model_id of the card.
GridCardSelectsModelId(index) ==
    LET model == At(visualizationData.models, index)
    IN  [key |-> model.model_id,
         onClick |-> model.model_id,
         color |-> getEnergyColor(model.binding_affinity),
         label |-> <<model.model_id, model.binding_affinity>>,
         pose |-> index]

\* Grid variant, the card of the model at position index (:235-264).
GridCard(index) ==
    LET model == At(visualizationData.models, index)
    IN  [key |-> model.model_id,
         onClick |-> index,
         color |-> getEnergyColor(model.binding_affinity),
         label |-> <<model.model_id, model.binding_affinity>>,
         pose |-> index]

\* Variant: the header is coloured for the first model.
SingleViewColorsFirstModel ==
    LET model == At(visualizationData.models, activeModel)
    IN  IF model = Null THEN TypeError
        ELSE [color |-> getEnergyColor(
                            At(visualizationData.models, 0).binding_affinity),
              energy |-> model.binding_affinity,
              pose |-> activeModel,
              atoms |-> Len(model.atoms),
              bonds |-> Len(model.bonds)]

\* Grid variant, the single view of the active model (:268-309).
SingleView ==
    LET model == At(visualizationData.models, activeModel)
    IN  IF model = Null THEN TypeError
        ELSE [color |-> getEnergyColor(model.binding_affinity),
              energy |-> model.binding_affinity,
              pose |-> activeModel,
              atoms |-> Len(model.atoms),
              bonds |-> Len(model.bonds)]

GridViewerView ==
    [summary |-> SummaryBox,
     toggle |-> IF showGrid THEN "Single View" ELSE "Grid View",
     body |-> IF showGrid
              THEN [cards |-> [i \in 1..Len(visualizationData.models) |->
                                 GridCard(i - 1)]]
              ELSE SingleView]

\* Select variant (src/components/MoleculeViewer.tsx:176-227).
SelectSummary ==
    [bestEnergy |-> visualizationData.summary.best_binding_affinity,
     totalModels |-> visualizationData.summary.model_count]

SelectViewerView ==
    LET model == At(visualizationData.models, activeModel)
    IN  [title |-> IF model = Null THEN Null
                   ELSE [energy |-> model.binding_affinity],
         selected |-> activeModel,
         options |-> [i \in 1..Len(visualizationData.models) |-> i - 1],
         pose |-> activeModel,
         summary |-> SelectSummary]


-----------------------------------------------------------------------------
(* Strings and files.  A file name is the sequence of its characters, so   *)
(* that toLowerCase and endsWith do what they do in the source.            *)

UpperCase == << "A", "B", "C", "D", "E", "F", "G", "H", "I", "J", "K", "L", "M",
                "N", "O", "P", "Q", "R", "S", "T", "U", "V", "W", "X", "Y", "Z" >>
LowerCase == << "a", "b", "c", "d", "e", "f", "g", "h", "i", "j", "k", "l", "m",
                "n", "o", "p", "q", "r", "s", "t", "u", "v", "w", "x", "y", "z" >>

LowerChar(c) ==
    IF \E i \in DOMAIN UpperCase : UpperCase[i] = c
    THEN LowerCase[CHOOSE i \in DOMAIN UpperCase : UpperCase[i] = c]
    ELSE c

toLowerCase(str) == [i \in DOMAIN str |-> LowerChar(str[i])]

endsWith(str, suffix) ==
    /\ Len(suffix) <= Len(str)
    /\ SubSeq(str, Len(str) - Len(suffix) + 1, Len(str)) = suffix

DotTxt == << ".", "t", "x", "t" >>
DotPdbqt == << ".", "p", "d", "b", "q", "t" >>
DotPdb == << ".", "p", "d", "b" >>
TextPlain == << "t", "e", "x", "t", "/", "p", "l", "a", "i", "n" >>
OctetStream == << "a", "p", "p", "l", "i", "c", "a", "t", "i", "o", "n", "/",
                  "o", "c", "t", "e", "t", "-", "s", "t", "r", "e", "a", "m" >>
ChemicalPdb == << "c", "h", "e", "m", "i", "c", "a", "l", "/",
                  "x", "-", "p", "d", "b" >>

\* src/frontend2/src/app/upload/page.tsx:64-68
AllowedFileTypesSrc == {DotPdb, ChemicalPdb, OctetStream}
\* src/unnamed/part_006:97-102
AllowedFileTypesRoot == {DotTxt, DotPdbqt, OctetStream, TextPlain}

maxSizeMB == 100
maxSizeBytes == maxSizeMB * 1024 * 1024

File(name, type, size) == [name |-> name, type |-> type, size |-> size]

TxtFile == File(<< "a" >> \o DotTxt, TextPlain, 1024)
UpperTxtFile == File(<< "B", ".", "T", "X", "T" >>, TextPlain, 2048)
PdbqtFile == File(<< "l" >> \o DotPdbqt, OctetStream, 4096)
PdbFile == File(<< "m" >> \o DotPdb, OctetStream, 4096)
BigTxtFile == File(<< "c" >> \o DotTxt, TextPlain, maxSizeBytes + 1)

Files == {TxtFile, UpperTxtFile, PdbqtFile, PdbFile, BigTxtFile}

isTxt(file) == endsWith(toLowerCase(file.name), DotTxt)
isPdbqt(file) == endsWith(toLowerCase(file.name), DotPdbqt)


-----------------------------------------------------------------------------
(* Initial state: every component as its useState calls leave it.          *)

NoString == "null"              \* null of a string-valued slot

NoOp == [op |-> "mount", arg |-> 0]

\* MoleculeViewer has not been rendered.
NotRendered == [rendered |-> FALSE]

\* No Mol3DViewer effect has run: nothing imported, no canvas anywhere.
NoEffects ==
    [flushed |-> Null, pending |-> <<>>,
     canvases |-> [single |-> <<>>, cards |-> <<>>], late |-> FALSE]

\* The server between requests: no text received, nothing computed.
Idle ==
    [pc |-> "idle", scoreText |-> <<>>, structureText |-> <<>>,
     scoreMap |-> <<>>, structureMap |-> <<>>, result |-> Null]
Did(op, arg) == lastOp' = [op |-> op, arg |-> arg]

Mounts ==
    { <<"visualize", "src", {}>> } \cup
    { <<"upload", v, a>> : v \in {"src", "root"},
                           a \in {AllowedFileTypesSrc, AllowedFileTypesRoot} }

Fresh(mount) ==
    /\ route = mount[1]
    /\ variant = mount[2]
    /\ allowedFileTypes = mount[3]
    /\ resultFile = Null
    /\ pdbqtFile = Null
    /\ loading = FALSE
    /\ error = NoString
    /\ files = <<>>
    /\ uploading = FALSE
    /\ cid = ""
    /\ solanaSignature = ""
    /\ uploadProgress = 0
    /\ pdfUrl = NoString
    /\ intervalActive = FALSE
    /\ visualizationData = Null
    /\ activeModel = 0
    /\ showGrid = FALSE
    /\ scene = <<>>
    /\ backend = Idle
    /\ screen = NotRendered
    /\ mol3d = NoEffects
    /\ inFlight = 0
    /\ lastOp = NoOp

Init == \E mount \in Mounts : Fresh(mount)

\* Leaving a page unmounts its components; the page entered starts afresh.
Navigate(mount) ==
    /\ route' = mount[1]
    /\ variant' = mount[2]
    /\ allowedFileTypes' = mount[3]
    /\ resultFile' = Null
    /\ pdbqtFile' = Null
    /\ loading' = FALSE
    /\ error' = NoString
    /\ files' = <<>>
    /\ uploading' = FALSE
    /\ cid' = ""
    /\ solanaSignature' = ""
    /\ uploadProgress' = 0
    /\ pdfUrl' = NoString
    /\ intervalActive' = FALSE
    /\ visualizationData' = Null
    /\ activeModel' = 0
    /\ showGrid' = FALSE
    /\ scene' = <<>>
    /\ backend' = Idle
    /\ screen' = NotRendered
    /\ mol3d' = NoEffects
    /\ inFlight' = 0
    /\ lastOp' = NoOp

\* React keeps the state of a component that stays mounted and gives a
\* component that is mounted anew the initial state of its useState calls
\* (MoleculeViewer.tsx:166-167).
ViewerState(mountedAfter) ==
    IF ViewerMounted /\ mountedAfter
    THEN UNCHANGED viewerVars
    ELSE activeModel' = 0 /\ showGrid' = FALSE

-----------------------------------------------------------------------------
(* The visualize page, DockingVisualizer (src/app/visualize/page.tsx).     *)

MissingFilesMessage == "Please select both result and PDBQT files"
ServerErrorMessage == "Server responded with an error"

handleResultFileChange(file) ==
    /\ route = "visualize"
    /\ resultFile' = file
    /\ Did("handleResultFileChange", 0)
    /\ UNCHANGED <<inFlight, screen, mol3d, backend, route, variant, allowedFileTypes, pdbqtFile, loading, error,
                   uploaderVars, visualizationData, viewerVars, scene>>

handlePdbqtFileChange(file) ==
    /\ route = "visualize"
    /\ pdbqtFile' = file
    /\ Did("handlePdbqtFileChange", 0)
    /\ UNCHANGED <<inFlight, screen, mol3d, backend, route, variant, allowedFileTypes, resultFile, loading, error,
                   uploaderVars, visualizationData, viewerVars, scene>>

\* The submit button is disabled while loading (page.tsx:106).  The handler
\* runs up to its await: visualizationData is not touched (page.tsx:34-35).
handleSubmit ==
    /\ route = "visualize"
    /\ ~loading
    /\ IF resultFile = Null \/ pdbqtFile = Null
       THEN /\ error' = MissingFilesMessage
            /\ UNCHANGED <<loading, inFlight>>
       ELSE /\ loading' = TRUE
            /\ error' = NoString
            /\ inFlight' = inFlight + 1
    /\ Did("handleSubmit", 0)
    /\ UNCHANGED <<screen, mol3d, backend, route, variant, allowedFileTypes, resultFile, pdbqtFile,
                   uploaderVars, visualizationData, viewerVars, scene>>

\* The fetch resolves with an OK response carrying data (page.tsx:53-55).
handleSubmitResolved ==
    /\ route = "visualize"
    /\ loading
    /\ \E data \in Datasets : visualizationData' = data
    /\ loading' = FALSE
    /\ ViewerState(TRUE)
    /\ inFlight' = inFlight - 1
    /\ Did("handleSubmitResolved", 0)
    /\ UNCHANGED <<screen, mol3d, backend, route, variant, allowedFileTypes, resultFile, pdbqtFile,
                   error, uploaderVars, scene>>

\* The fetch fails or the response is not OK (page.tsx:47-51, 56-64).
handleSubmitRejected ==
    /\ route = "visualize"
    /\ loading
    /\ error' = ServerErrorMessage
    /\ loading' = FALSE
    /\ inFlight' = inFlight - 1
    /\ Did("handleSubmitRejected", 0)
    /\ UNCHANGED <<screen, mol3d, backend, route, variant, allowedFileTypes, resultFile, pdbqtFile,
                   uploaderVars, visualizationData, viewerVars, scene>>

-----------------------------------------------------------------------------
(* MoleculeViewer: the handlers of its controls.                           *)

\* String(n) of a natural number, as its decimal digits, and parseInt back.
RECURSIVE DecimalDigits(_)
DecimalDigits(n) ==
    IF n < 10 THEN << n >> ELSE Append(DecimalDigits(n \div 10), n % 10)

RECURSIVE parseInt(_)
parseInt(digits) ==
    IF Len(digits) = 1 THEN digits[1]
    ELSE 10 * parseInt(SubSeq(digits, 1, Len(digits) - 1)) + digits[Len(digits)]

\* Select variant: the <select> offers one option per model, its value the
\* position of the model (src/components/MoleculeViewer.tsx:168-170, 191-195).
handleModelChange(index) ==
    /\ ViewerMounted /\ ViewerVariant = "select"
    /\ index \in 0..(Len(visualizationData.models) - 1)
    /\ activeModel' = parseInt(DecimalDigits(index))
    /\ Did("handleModelChange", index)
    /\ UNCHANGED <<inFlight, screen, mol3d, backend, route, variant, allowedFileTypes, pageVars, uploaderVars,
                   visualizationData, showGrid, scene>>

\* Grid variant, single view: the button of the model at position index
\* (components/MoleculeViewer.tsx:270-282).
selectModelButton(index) ==
    /\ ViewerMounted /\ ViewerVariant = "grid" /\ ~showGrid
    /\ index \in 0..(Len(visualizationData.models) - 1)
    /\ activeModel' = index
    /\ Did("selectModelButton", index)
    /\ UNCHANGED <<inFlight, screen, mol3d, backend, route, variant, allowedFileTypes, pageVars, uploaderVars,
                   visualizationData, showGrid, scene>>

\* Grid variant, grid view: a click on the card of the model at position
\* index (components/MoleculeViewer.tsx:235-240).
selectModelCard(index) ==
    /\ ViewerMounted /\ ViewerVariant = "grid" /\ showGrid
    /\ index \in 0..(Len(visualizationData.models) - 1)
    /\ activeModel' = GridCard(index).onClick
    /\ Did("selectModelCard", index)
    /\ UNCHANGED <<inFlight, screen, mol3d, backend, route, variant, allowedFileTypes, pageVars, uploaderVars,
                   visualizationData, showGrid, scene>>

\* Variant: going back and forth starts again from the first model.
toggleViewResetsModel ==
    /\ ViewerMounted /\ ViewerVariant = "grid"
    /\ showGrid' = ~showGrid
    /\ activeModel' = 0
    /\ Did("toggleView", 0)
    /\ UNCHANGED <<inFlight, screen, mol3d, backend, route, variant, allowedFileTypes, pageVars, uploaderVars,
                   visualizationData, scene>>

\* Grid variant (components/MoleculeViewer.tsx:197-199).
toggleView ==
    /\ ViewerMounted /\ ViewerVariant = "grid"
    /\ showGrid' = ~showGrid
    /\ Did("toggleView", 0)
    /\ UNCHANGED <<inFlight, screen, mol3d, backend, route, variant, allowedFileTypes, pageVars, uploaderVars,
                   visualizationData, activeModel, scene>>


-----------------------------------------------------------------------------
(* FileUploader (src/components/FileUploader.tsx; src/unnamed/part_005 is  *)
(* the same component without cid and solanaSignature).                    *)

\* What the component shows (FileUploader.tsx:357-461).
SelectionShown ==
    route = "upload" /\ ~uploading
        /\ visualizationData = Null /\ pdfUrl = NoString
ResultsShown ==
    route = "upload" /\ ~uploading
        /\ (visualizationData # Null \/ pdfUrl # NoString)

\* useDropzone hands onDrop the dropped files that match its accept map and
\* maxSize (FileUploader.tsx:96-103): a MIME type of the map, or one of its
\* extensions, and a size within the limit.
DropzoneAccepts(file) ==
    /\ \/ file.type \in {TextPlain, OctetStream}
       \/ isTxt(file)
       \/ isPdbqt(file)
    /\ file.size <= maxSizeBytes

IsAllowedType(file) ==
    \E type \in allowedFileTypes : endsWith(toLowerCase(file.name), type)

IsOversized(file) == file.size > maxSizeBytes

\* Variant: a second file of a kind is not refused.
onDropAllowsDuplicates(acceptedFiles) ==
    LET invalidFiles == SelectSeq(acceptedFiles, LAMBDA f : ~IsAllowedType(f))
        oversizedFiles == SelectSeq(acceptedFiles, IsOversized)
    IN  IF \/ Len(files) + Len(acceptedFiles) > 2
           \/ Len(invalidFiles) > 0
           \/ Len(oversizedFiles) > 0
        THEN files
        ELSE files \o acceptedFiles

\* FileUploader.tsx:29-94: what setFiles is given, or files as it is after
\* a refusal.
onDrop(acceptedFiles) ==
    LET invalidFiles == SelectSeq(acceptedFiles, LAMBDA f : ~IsAllowedType(f))
        oversizedFiles == SelectSeq(acceptedFiles, IsOversized)
        updatedFiles == files \o acceptedFiles
        txtFiles == SelectSeq(updatedFiles, isTxt)
        pdbqtFiles == SelectSeq(updatedFiles, isPdbqt)
    IN  IF \/ Len(files) + Len(acceptedFiles) > 2
           \/ Len(invalidFiles) > 0
           \/ Len(oversizedFiles) > 0
           \/ Len(txtFiles) > 1
           \/ Len(pdbqtFiles) > 1
        THEN files
        ELSE updatedFiles

\* The user drops a list of distinct files on the drop zone.
Drop(dropped) ==
    /\ SelectionShown
    /\ files' = onDrop(SelectSeq(dropped, DropzoneAccepts))
    /\ Did("onDrop", 0)
    /\ UNCHANGED <<inFlight, screen, mol3d, backend, route, variant, allowedFileTypes, pageVars, uploading, cid,
                   solanaSignature, uploadProgress, pdfUrl, intervalActive,
                   visualizationData, viewerVars, scene>>

Splice(s, index) ==
    [i \in 1..(Len(s) - 1) |-> IF i <= index THEN s[i] ELSE s[i + 1]]

\* FileUploader.tsx:105-115; the buttons exist for the files listed.
removeFile(index) ==
    /\ SelectionShown
    /\ index \in 0..(Len(files) - 1)
    /\ files' = Splice(files, index)
    /\ IF Len(files') = 0
       THEN visualizationData' = Null /\ pdfUrl' = NoString
       ELSE UNCHANGED <<visualizationData, pdfUrl>>
    /\ Did("removeFile", 0)
    /\ UNCHANGED <<inFlight, screen, mol3d, backend, route, variant, allowedFileTypes, pageVars, uploading, cid,
                   solanaSignature, uploadProgress, intervalActive,
                   viewerVars, scene>>

HasRequiredFiles ==
    /\ \E i \in DOMAIN files : isTxt(files[i])
    /\ \E i \in DOMAIN files : isPdbqt(files[i])

\* Variant: the upload starts with any two files.
handleUploadAnyTwoFiles ==
    /\ SelectionShown
    /\ Len(files) = 2
    /\ uploading' = TRUE
    /\ uploadProgress' = 0
    /\ visualizationData' = Null
    /\ pdfUrl' = NoString
    /\ intervalActive' = TRUE
    /\ inFlight' = inFlight + 1
    /\ ViewerState(FALSE)
    /\ Did("handleUpload", 0)
    /\ UNCHANGED <<screen, mol3d, backend, route, variant, allowedFileTypes,
                   pageVars, files, cid, solanaSignature, scene>>

\* Variant: the button stays while a request is awaited.
handleUploadWhileUploading ==
    /\ route = "upload"
    /\ Len(files) = 2
    /\ inFlight < 2
    /\ IF ~HasRequiredFiles
       THEN UNCHANGED <<uploading, uploadProgress, visualizationData, pdfUrl,
                        intervalActive, inFlight>>
       ELSE /\ uploading' = TRUE
            /\ uploadProgress' = 0
            /\ visualizationData' = Null
            /\ pdfUrl' = NoString
            /\ intervalActive' = TRUE
            /\ inFlight' = inFlight + 1
    /\ ViewerState(FALSE)
    /\ Did("handleUpload", 0)
    /\ UNCHANGED <<screen, mol3d, backend, route, variant, allowedFileTypes,
                   pageVars, files, cid, solanaSignature, scene>>

\* FileUploader.tsx:117-147, up to the await of the fetch.  The button is
\* enabled when two files are selected (:437).
handleUpload ==
    /\ SelectionShown
    /\ Len(files) = 2
    /\ IF ~HasRequiredFiles
       THEN UNCHANGED <<uploading, uploadProgress, visualizationData, pdfUrl,
                        intervalActive, inFlight>>
       ELSE /\ uploading' = TRUE
            /\ uploadProgress' = 0
            /\ visualizationData' = Null
            /\ pdfUrl' = NoString
            /\ intervalActive' = TRUE
            /\ inFlight' = inFlight + 1
    /\ ViewerState(FALSE)
    /\ Did("handleUpload", 0)
    /\ UNCHANGED <<screen, mol3d, backend, route, variant, allowedFileTypes, pageVars, files, cid,
                   solanaSignature, scene>>

\* The timer of FileUploader.tsx:139-147.
progressTick ==
    /\ route = "upload"
    /\ intervalActive
    /\ IF uploadProgress >= 95
       THEN intervalActive' = FALSE /\ UNCHANGED uploadProgress
       ELSE uploadProgress' = uploadProgress + 5 /\ UNCHANGED intervalActive
    /\ UNCHANGED <<inFlight, screen, mol3d, backend, route, variant, allowedFileTypes, pageVars, files, uploading,
                   cid, solanaSignature, pdfUrl, visualizationData, viewerVars,
                   scene, lastOp>>

\* The bodies of the server's responses.  pdf_report_base64 is a string of
\* hexadecimal digits, absent ("none"), or a value without a match method
\* ("malformed"), on which FileUploader.tsx:179-181 throws.
Responses ==
    [cid : {"", "bafyA", "bafyB"},
     solana_signature : {"", "sigA"},
     pdf_report_base64 : {"none", "hex", "malformed"},
     visualization_data : Datasets \cup {Null}]

BlobUrl == "blob:report"

\* Variant: the visualization data is set before the report is decoded.
UploadResponseDataFirst(data) ==
    LET threw == data.pdf_report_base64 = "malformed"
        shown == IF data.visualization_data = Null
                 THEN visualizationData
                 ELSE data.visualization_data
    IN  /\ intervalActive' = FALSE
        /\ uploadProgress' = 100
        /\ IF variant = "src"
           THEN /\ cid' = IF data.cid # "" THEN data.cid ELSE cid
                /\ solanaSignature' = IF data.solana_signature # ""
                                      THEN data.solana_signature
                                      ELSE solanaSignature
           ELSE UNCHANGED <<cid, solanaSignature>>
        /\ pdfUrl' = IF data.pdf_report_base64 = "hex" THEN BlobUrl ELSE pdfUrl
        /\ visualizationData' = shown
        /\ uploading' = FALSE
        /\ ViewerState(shown # Null)
        /\ inFlight' = inFlight - 1
        /\ Did("handleUploadResolved", IF threw THEN 1 ELSE 0)
        /\ UNCHANGED <<screen, mol3d, backend, route, variant,
                       allowedFileTypes, pageVars, files, scene>>

\* FileUploader.tsx:168-209: the response is OK and its JSON body is data.
\* The history records whether the handling threw (1) or not (0).
UploadResponse(data) ==
    LET threw == data.pdf_report_base64 = "malformed"
        shown == IF threw \/ data.visualization_data = Null
                 THEN visualizationData
                 ELSE data.visualization_data
    IN  /\ intervalActive' = FALSE
        /\ uploadProgress' = 100
        /\ IF variant = "src"
           THEN /\ cid' = IF data.cid # "" THEN data.cid ELSE cid
                /\ solanaSignature' = IF data.solana_signature # ""
                                      THEN data.solana_signature
                                      ELSE solanaSignature
           ELSE UNCHANGED <<cid, solanaSignature>>
        /\ pdfUrl' = IF data.pdf_report_base64 = "hex" THEN BlobUrl ELSE pdfUrl
        /\ visualizationData' = shown
        /\ uploading' = FALSE
        /\ ViewerState(shown # Null)
        /\ inFlight' = inFlight - 1
        /\ Did("handleUploadResolved", IF threw THEN 1 ELSE 0)
        /\ UNCHANGED <<screen, mol3d, backend, route, variant, allowedFileTypes, pageVars, files, scene>>

handleUploadResolved ==
    /\ route = "upload"
    /\ uploading
    /\ \E data \in Responses : UploadResponse(data)

\* FileUploader.tsx:164-166, 199-208: the fetch fails or the response is
\* not OK.
handleUploadRejected ==
    /\ route = "upload"
    /\ uploading
    /\ intervalActive' = FALSE
    /\ uploading' = FALSE
    /\ inFlight' = inFlight - 1
    /\ Did("handleUploadRejected", 0)
    /\ UNCHANGED <<screen, mol3d, backend, route, variant, allowedFileTypes, pageVars, files, cid,
                   solanaSignature, uploadProgress, pdfUrl, visualizationData,
                   viewerVars, scene>>

\* "Process Another Docking Result" (FileUploader.tsx:340-352).
processAnother ==
    /\ ResultsShown
    /\ files' = <<>>
    /\ visualizationData' = Null
    /\ pdfUrl' = NoString
    /\ IF variant = "src"
       THEN cid' = "" /\ solanaSignature' = ""
       ELSE UNCHANGED <<cid, solanaSignature>>
    /\ ViewerState(FALSE)
    /\ Did("processAnother", 0)
    /\ UNCHANGED <<inFlight, screen, mol3d, backend, route, variant, allowedFileTypes, pageVars, uploading,
                   uploadProgress, intervalActive, scene>>


-----------------------------------------------------------------------------
(* Mol3DViewer: the scene its effect builds (MoleculeViewer.tsx:69-144).   *)

SphereRadiusTenths == 5         \* radius: 0.5
CylinderRadiusTenths == 2       \* radius: 0.2

\* The object literal colors of MoleculeViewer.tsx:151-159: its own keys.
colors ==
    [C |-> "gray", N |-> "blue", O |-> "red", H |-> "white", S |-> "yellow",
     P |-> "orange"]

\* colors is a plain object: a key it does not own is looked up on
\* Object.prototype, whose members are these.
ObjectPrototypeKeys ==
    {"constructor", "toString", "toLocaleString", "valueOf", "hasOwnProperty",
     "isPrototypeOf", "propertyIsEnumerable", "__proto__", "__defineGetter__",
     "__defineSetter__", "__lookupGetter__", "__lookupSetter__"}

\* The value of an inherited member (a function, or Object.prototype
\* itself): truthy, and not a colour name.
InheritedMember == "[Object.prototype member]"

Undefined == "undefined"

\* colors[element]
Lookup(element) ==
    IF element \in DOMAIN colors THEN colors[element]
    ELSE IF element \in ObjectPrototypeKeys THEN InheritedMember
    ELSE Undefined

\* MoleculeViewer.tsx:149-162: colors[element] || "pink"
getElementColor(element) ==
    IF Lookup(element) # Undefined THEN Lookup(element) ELSE "pink"

\* atoms.find((a) => a.id === id): the first atom with that id, or undefined.
find(atoms, id) ==
    IF \E i \in DOMAIN atoms : atoms[i].id = id
    THEN atoms[CHOOSE i \in DOMAIN atoms :
                  /\ atoms[i].id = id
                  /\ \A j \in DOMAIN atoms : atoms[j].id = id => i <= j]
    ELSE Null

Center(atom) == IF atom = Null THEN Null ELSE << atom.x, atom.y, atom.z >>

addSphere(atom) ==
    [call |-> "addSphere", center |-> Center(atom),
     radius |-> SphereRadiusTenths, color |-> getElementColor(atom.element)]

addCylinder(atom1, atom2) ==
    [call |-> "addCylinder", start |-> Center(atom1), end |-> Center(atom2),
     radius |-> CylinderRadiusTenths, color |-> "gray"]

\* Variant: one endpoint is enough.
BondIsDrawnEitherAtom(atom1, atom2) == atom1 # Null \/ atom2 # Null

\* The condition of MoleculeViewer.tsx:121 (viewer is set at that point).
BondIsDrawn(atom1, atom2) == atom1 # Null /\ atom2 # Null

RECURSIVE BondCalls(_, _)
BondCalls(atoms, bonds) ==
    IF bonds = <<>> THEN <<>>
    ELSE LET atom1 == find(atoms, Head(bonds).atom1)
             atom2 == find(atoms, Head(bonds).atom2)
         IN  (IF BondIsDrawn(atom1, atom2)
              THEN << addCylinder(atom1, atom2) >>
              ELSE <<>>) \o BondCalls(atoms, Tail(bonds))

\* Variant: the bonds are drawn before the atoms.
RenderCallsBondsFirst(currentModel) ==
    IF currentModel = Null THEN << TypeError >>
    ELSE BondCalls(currentModel.atoms, currentModel.bonds)
         \o [i \in 1..Len(currentModel.atoms) |-> addSphere(currentModel.atoms[i])]
         \o << [call |-> "zoomTo"], [call |-> "render"] >>

\* The calls on the 3Dmol viewer, in order (MoleculeViewer.tsx:104-135); a
\* missing currentModel makes currentModel.atoms throw.
RenderCalls(currentModel) ==
    IF currentModel = Null THEN << TypeError >>
    ELSE [i \in 1..Len(currentModel.atoms) |-> addSphere(currentModel.atoms[i])]
         \o BondCalls(currentModel.atoms, currentModel.bonds)
         \o << [call |-> "zoomTo"], [call |-> "render"] >>

\* The import of 3dmol resolves and the callback of the effect runs for the
\* viewer of the active model (single view or select variant).
Mol3DViewerEffect ==
    /\ ViewerMounted
    /\ ViewerVariant = "select" \/ ~showGrid
    /\ scene = <<>>
    /\ scene' = RenderCalls(At(visualizationData.models, activeModel))
    /\ Did("Mol3DViewerEffect", activeModel)
    /\ UNCHANGED <<inFlight, screen, mol3d, backend, route, variant, allowedFileTypes, pageVars, uploaderVars,
                   visualizationData, viewerVars>>

-----------------------------------------------------------------------------
(* Mol3DViewer over time (components/MoleculeViewer.tsx:56-144, the same   *)
(* in src/components/MoleculeViewer.tsx).  A handler sets state; React     *)
(* renders, commits the DOM and runs the effects whose dependencies        *)
(* changed; each effect awaits import("3dmol"), and its callback draws into *)
(* what its containerRef holds when the import resolves.  The imports of   *)
(* one module resolve in the order in which they were requested.           *)

\* The props the current state gives the Mol3DViewers.
RenderedProps ==
    [data |-> visualizationData,
     activeModel |-> activeModel,
     grid |-> ViewerVariant = "grid" /\ showGrid]

\* Every render's effects have run.
Committed == mol3d.flushed = RenderedProps

\* What an effect closes over as containerRef: the ref object of the
\* single view, whose current is read when the callback runs (:165,
\* 292-300), or the literal a card is given, whose current is what
\* modelRefsArray held at render time (:256-260).
ContainerRef == [ref |-> "containerRef", index |-> 0]
CardElement(index) == [ref |-> "element", index |-> index]
NoElement == [ref |-> "null", index |-> 0]
DetachedElement == [ref |-> "detached", index |-> 0]

\* The canvas of a viewer that drew the pose of the callback (:89-135).
Canvas(e) ==
    [pose |-> e.pose, calls |-> RenderCalls(At(e.data.models, e.pose))]

\* Variant: the callback leaves the canvases it finds.
Mol3DViewerCallbackKeepsCanvases(existing, e) == Append(existing, Canvas(e))

\* The callback in a container: the canvases found are removed (:85-86),
\* createViewer adds one (:89) and the pose is drawn in it.
Mol3DViewerCallback(existing, e) == << Canvas(e) >>

\* React commits the render and runs the effects: the single view's
\* Mol3DViewer when it is new or its modelData or activeModel changed,
\* every card's Mol3DViewer on every render, its containerRef being a new
\* object.  A card's literal holds the element only if the card was already
\* there before this render; refs are assigned at commit (:252).  The
\* elements of a view that goes are detached.
commitEffects ==
    /\ ViewerMounted
    /\ ~Committed
    /\ LET prev == mol3d.flushed
           n == Len(visualizationData.models)
           grid == RenderedProps.grid
           remounted == \/ prev = Null
                        \/ route = "upload" /\ prev.data # visualizationData
           wasGrid == ~remounted /\ prev.grid
           wasSingle == ~remounted /\ ~prev.grid
           kept == [k \in 1..Len(mol3d.pending) |->
                      IF mol3d.pending[k].ref.ref = "element"
                            /\ (~wasGrid \/ ~grid)
                      THEN [mol3d.pending[k] EXCEPT !.ref = DetachedElement]
                      ELSE mol3d.pending[k]]
           effects ==
               IF grid
               THEN [i \in 1..n |->
                       [ref |-> IF wasGrid THEN CardElement(i - 1)
                                ELSE NoElement,
                        data |-> visualizationData,
                        pose |-> i - 1]]
               ELSE << [ref |-> ContainerRef,
                        data |-> visualizationData,
                        pose |-> activeModel] >>
       IN  /\ Len(kept) + Len(effects) <= MaxPending
           /\ mol3d' =
                [flushed |-> RenderedProps,
                 pending |-> kept \o effects,
                 canvases |->
                    IF grid
                    THEN [single |-> <<>>,
                          cards |-> IF wasGrid THEN mol3d.canvases.cards
                                    ELSE [i \in 1..n |-> <<>>]]
                    ELSE [single |-> IF wasSingle THEN mol3d.canvases.single
                                     ELSE <<>>,
                          cards |-> <<>>],
                 late |-> mol3d.late]
    /\ Did("commitEffects", 0)
    /\ UNCHANGED <<inFlight, screen, backend, route, variant, allowedFileTypes, pageVars,
                   uploaderVars, visualizationData, viewerVars, scene>>

\* The oldest import resolves and its callback runs (:72-137): nothing
\* without modelData or without an element in containerRef.current (:82).
importResolved ==
    /\ mol3d.pending # <<>>
    /\ LET e == Head(mol3d.pending)
           singleShown == /\ ViewerMounted
                          /\ mol3d.flushed # Null
                          /\ ~mol3d.flushed.grid
           cleanedUp == \E k \in 2..Len(mol3d.pending) :
                            mol3d.pending[k].ref = ContainerRef
       IN  /\ mol3d' =
                [mol3d EXCEPT
                    !.pending = Tail(@),
                    !.canvases =
                        IF e.data = Null THEN @
                        ELSE IF e.ref = ContainerRef /\ singleShown
                        THEN [@ EXCEPT !.single = Mol3DViewerCallback(@, e)]
                        ELSE IF e.ref.ref = "element"
                        THEN [@ EXCEPT !.cards[e.ref.index + 1] =
                                           Mol3DViewerCallback(@, e)]
                        ELSE @,
                    !.late = @ \/ (e.ref = ContainerRef /\ singleShown
                                     /\ cleanedUp)]
           /\ Did("importResolved", e.pose)
    /\ UNCHANGED <<inFlight, screen, backend, route, variant, allowedFileTypes, pageVars,
                   uploaderVars, visualizationData, viewerVars, scene>>

-----------------------------------------------------------------------------
(* MoleculeViewer as a function of the modelData it is given and of its    *)
(* state, in the order in which its body runs.                             *)

\* The message of the null check (components/MoleculeViewer.tsx:201-203,
\* src/components/MoleculeViewer.tsx:172-174).
NoDataMessage == [text |-> "No model data available"]

\* Grid variant: the energy range is read off modelData.models
\* (components/MoleculeViewer.tsx:179-180), which throws without modelData.
EnergyRange ==
    IF visualizationData = Null THEN TypeError
    ELSE [min |-> minEnergy, max |-> maxEnergy]

\* Grid variant: the range first, the null check after it
\* (components/MoleculeViewer.tsx:164-313).
GridMoleculeViewer ==
    IF EnergyRange = TypeError THEN TypeError
    ELSE IF visualizationData = Null THEN NoDataMessage
    ELSE GridViewerView

\* Select variant: the null check comes before any use of modelData
\* (src/components/MoleculeViewer.tsx:164-230).
SelectMoleculeViewer ==
    IF visualizationData = Null THEN NoDataMessage
    ELSE SelectViewerView

MoleculeViewer ==
    IF ViewerVariant = "grid" THEN GridMoleculeViewer
    ELSE SelectMoleculeViewer

\* React renders <MoleculeViewer modelData={visualizationData}> with
\* whatever its holder has, data or none.
renderMoleculeViewer ==
    /\ route = "upload" /\ ~uploading
    /\ screen' = MoleculeViewer
    /\ Did("MoleculeViewer", 0)
    /\ UNCHANGED <<inFlight, mol3d, backend, route, variant, allowedFileTypes, pageVars,
                   uploaderVars, visualizationData, viewerVars, scene>>

-----------------------------------------------------------------------------
(* The server's transform (spec sections 4.1-4.3): the score parser, the   *)
(* structure parser and the model merger.  A text is the sequence of its   *)
(* lines and a line the sequence of its fields.  A numeric field is an     *)
(* integer literal or a decimal literal; affinities and coordinates are    *)
(* kept in tenths, like the affinities of the viewer.                      *)

frontVars == <<route, variant, allowedFileTypes, pageVars, uploaderVars,
               visualizationData, viewerVars, scene, screen, mol3d,
               inFlight>>

IntField(n) == [int |-> n]           \* the field "3"
DecField(tenths) == [dec |-> tenths] \* the field "-7.2", as -72
WordField(w) == [word |-> w]         \* any other field

IsInt(field) == "int" \in DOMAIN field
IsNumber(field) == "int" \in DOMAIN field \/ "dec" \in DOMAIN field

\* The value of a numeric field, in tenths.
Tenths(field) == IF IsInt(field) THEN 10 * field.int ELSE field.dec

\* Section 4.1: a relevant line associates one integer pose index with one
\* numeric affinity; the pattern is tolerant of what follows them.
ScoreLineMatches(line) ==
    /\ Len(line) >= 2
    /\ IsInt(line[1])
    /\ IsNumber(line[2])

Put(map, key, value) ==
    [k \in DOMAIN map \cup {key} |-> IF k = key THEN value ELSE map[k]]

\* Variant: the first line that declares an index wins.
RECURSIVE ParseScoresFirstWins(_, _)
ParseScoresFirstWins(lines, map) ==
    IF lines = <<>> THEN map
    ELSE LET line == Head(lines)
         IN  ParseScoresFirstWins(
                 Tail(lines),
                 IF ScoreLineMatches(line) /\ line[1].int \notin DOMAIN map
                 THEN Put(map, line[1].int, Tenths(line[2]))
                 ELSE map)

\* Section 4.1: lines that do not match are skipped; a later line for an
\* index replaces the earlier one.
RECURSIVE ParseScores(_, _)
ParseScores(lines, map) ==
    IF lines = <<>> THEN map
    ELSE LET line == Head(lines)
         IN  ParseScores(
                 Tail(lines),
                 IF ScoreLineMatches(line)
                 THEN Put(map, line[1].int, Tenths(line[2]))
                 ELSE map)

parseScores ==
    /\ backend.pc = "received"
    /\ backend' = [backend EXCEPT !.scoreMap = ParseScores(backend.scoreText, <<>>),
                                  !.pc = "scored"]
    /\ Did("parseScores", 0)
    /\ UNCHANGED frontVars

\* Section 4.2, the structure file.  Its records: the begin-model marker
\* with a pose index, the end-model marker, atom lines, bond records and
\* anything else.
ModelLine(index) == [rec |-> "MODEL", index |-> index]
EndModelLine == [rec |-> "ENDMDL"]
AtomLine(serial, name, element, x) ==
    [rec |-> "ATOM", serial |-> serial, name |-> name, element |-> element,
     x |-> x, y |-> DecField(0), z |-> DecField(0)]
BondLine(atom1, atom2) == [rec |-> "CONECT", atom1 |-> atom1, atom2 |-> atom2]

IsAlpha(c) ==
    \/ \E i \in DOMAIN UpperCase : UpperCase[i] = c
    \/ \E i \in DOMAIN LowerCase : LowerCase[i] = c

\* The alphabetic prefix of an atom name, as a string.
RECURSIVE AlphabeticPrefix(_)
AlphabeticPrefix(name) ==
    IF name = <<>> THEN ""
    ELSE IF ~IsAlpha(name[1]) THEN ""
    ELSE name[1] \o AlphabeticPrefix(Tail(name))

\* The element column, or the fallback rule when it is blank.
ElementOfLine(line) ==
    IF line.element # "" THEN line.element ELSE AlphabeticPrefix(line.name)

\* A malformed coordinate field makes the parser skip the atom.
IsAtom(line) ==
    /\ line.rec = "ATOM"
    /\ IsNumber(line.x) /\ IsNumber(line.y) /\ IsNumber(line.z)

IsBond(line) == line.rec = "CONECT"

IsMarker(line) == line.rec = "MODEL" \/ line.rec = "ENDMDL"

ParseAtom(line) ==
    [id |-> line.serial, element |-> ElementOfLine(line),
     x |-> Tenths(line.x), y |-> Tenths(line.y), z |-> Tenths(line.z)]

EmptyPose(index) == [index |-> index, atoms |-> <<>>, bonds |-> <<>>]

\* The record added to the pose it belongs to; other lines change nothing.
AddRecord(pose, line) ==
    IF IsAtom(line)
    THEN [pose EXCEPT !.atoms = Append(pose.atoms, ParseAtom(line))]
    ELSE IF IsBond(line)
    THEN [pose EXCEPT !.bonds =
             Append(pose.bonds, [atom1 |-> line.atom1, atom2 |-> line.atom2])]
    ELSE pose

\* The poses with one for index, added at the end if it is new.
OpenPose(poses, index) ==
    IF \E i \in DOMAIN poses : poses[i].index = index THEN poses
    ELSE Append(poses, EmptyPose(index))

\* A file with markers: a record belongs to the pose whose begin marker
\* precedes it with no other marker in between; current = 0 outside.
RECURSIVE ParseBlocks(_, _, _)
ParseBlocks(lines, current, poses) ==
    IF lines = <<>> THEN poses
    ELSE LET line == Head(lines)
         IN  IF line.rec = "MODEL"
             THEN ParseBlocks(Tail(lines), line.index,
                              OpenPose(poses, line.index))
             ELSE IF line.rec = "ENDMDL"
             THEN ParseBlocks(Tail(lines), 0, poses)
             ELSE IF current = 0
             THEN ParseBlocks(Tail(lines), 0, poses)
             ELSE ParseBlocks(
                      Tail(lines), current,
                      [i \in DOMAIN poses |->
                          IF poses[i].index = current
                          THEN AddRecord(poses[i], line)
                          ELSE poses[i]])

RECURSIVE AddRecords(_, _)
AddRecords(pose, lines) ==
    IF lines = <<>> THEN pose
    ELSE AddRecords(AddRecord(pose, Head(lines)), Tail(lines))

\* A file without markers is one implicit pose with index 1; a file with
\* no recognizable record at all is the empty mapping (section 7 (a)).
ParseImplicit(lines) ==
    IF \A i \in DOMAIN lines : ~IsAtom(lines[i]) /\ ~IsBond(lines[i])
    THEN <<>>
    ELSE << AddRecords(EmptyPose(1), lines) >>

\* The window of the distance heuristic, in tenths of an Angstrom.
BondMinTenths == 4
BondMaxTenths == 19

Bonded(a, b) ==
    LET d2 == (a.x - b.x) * (a.x - b.x) + (a.y - b.y) * (a.y - b.y)
                + (a.z - b.z) * (a.z - b.z)
    IN  /\ BondMinTenths * BondMinTenths <= d2
        /\ d2 <= BondMaxTenths * BondMaxTenths
        /\ ~(a.element = "H" /\ b.element = "H")

\* The bonds inferred for a pose that declares none: the pairs of atoms
\* within the window, in the order of the atom list.
InferBonds(atoms) ==
    LET n == Len(atoms)
        pairs == [k \in 1..(n * n) |-> << ((k - 1) \div n) + 1, ((k - 1) % n) + 1 >>]
        near == SelectSeq(pairs, LAMBDA p :
                    p[1] < p[2] /\ Bonded(atoms[p[1]], atoms[p[2]]))
    IN  [k \in 1..Len(near) |->
            [atom1 |-> atoms[near[k][1]].id, atom2 |-> atoms[near[k][2]].id]]

FinishPose(pose) ==
    IF pose.bonds = <<>>
    THEN [pose EXCEPT !.bonds = InferBonds(pose.atoms)]
    ELSE pose

\* Variant: the atoms of every pose in reverse order.
ParseStructureReversed(lines) ==
    LET raw == IF \E i \in DOMAIN lines : IsMarker(lines[i])
               THEN ParseBlocks(lines, 0, <<>>)
               ELSE ParseImplicit(lines)
    IN  [i \in DOMAIN raw |->
            [raw[i] EXCEPT !.atoms =
                [k \in 1..Len(raw[i].atoms) |->
                    raw[i].atoms[Len(raw[i].atoms) + 1 - k]]]]

\* Section 4.2: the poses of a structure text, in the order of appearance.
ParseStructure(lines) ==
    LET raw == IF \E i \in DOMAIN lines : IsMarker(lines[i])
               THEN ParseBlocks(lines, 0, <<>>)
               ELSE ParseImplicit(lines)
    IN  [i \in DOMAIN raw |-> FinishPose(raw[i])]

parseStructure ==
    /\ backend.pc = "scored"
    /\ backend' = [backend EXCEPT
                      !.structureMap = ParseStructure(backend.structureText),
                      !.pc = "structured"]
    /\ Did("parseStructure", 0)
    /\ UNCHANGED frontVars

\* Section 4.3, the model merger.  The affinity of a pose without a score
\* is a sentinel outside the affinity scale, which compares like NaN.
Unscored == 100000

EmptyDatasetError == [error |-> "no valid poses"]

AffinityOf(scoreMap, index) ==
    IF index \in DOMAIN scoreMap THEN scoreMap[index] ELSE Unscored

\* One Model per pose of the structure map, in its order.
MergedModels(scoreMap, structureMap) ==
    [i \in DOMAIN structureMap |->
        Model(structureMap[i].index,
              AffinityOf(scoreMap, structureMap[i].index),
              structureMap[i].atoms, structureMap[i].bonds)]

ScoredAffinities(models) ==
    LET scored == SelectSeq(models, LAMBDA m : m.binding_affinity # Unscored)
    IN  [i \in DOMAIN scored |-> scored[i].binding_affinity]

\* Variant: model_count counts the scored models only.
mergeCountsScored(scoreMap, structureMap) ==
    LET models == MergedModels(scoreMap, structureMap)
        scored == ScoredAffinities(models)
    IN  IF scored = <<>> THEN EmptyDatasetError
        ELSE ModelData(models, SeqMin(scored), Len(scored))

\* Variant: a pose without a score is dropped.
mergeDropsUnscored(scoreMap, structureMap) ==
    LET models == SelectSeq(MergedModels(scoreMap, structureMap),
                            LAMBDA m : m.binding_affinity # Unscored)
        scored == ScoredAffinities(models)
    IN  IF scored = <<>> THEN EmptyDatasetError
        ELSE ModelData(models, SeqMin(scored), Len(models))

\* Variant: only a dataset without any pose is empty.
mergeFailsWithoutPoses(scoreMap, structureMap) ==
    LET models == MergedModels(scoreMap, structureMap)
        scored == ScoredAffinities(models)
    IN  IF models = <<>> THEN EmptyDatasetError
        ELSE ModelData(models,
                       IF scored = <<>> THEN Unscored ELSE SeqMin(scored),
                       Len(models))

\* merge(scoreMap, structureMap): the dataset, or the empty-dataset
\* condition when no pose has both a score and a structure.
merge(scoreMap, structureMap) ==
    LET models == MergedModels(scoreMap, structureMap)
        scored == ScoredAffinities(models)
    IN  IF scored = <<>> THEN EmptyDatasetError
        ELSE ModelData(models, SeqMin(scored), Len(models))

mergeModels ==
    /\ backend.pc = "structured"
    /\ backend' = [backend EXCEPT
                      !.result = merge(backend.scoreMap, backend.structureMap),
                      !.pc = "merged"]
    /\ Did("merge", 0)
    /\ UNCHANGED frontVars

-----------------------------------------------------------------------------
(* Specifications.                                                         *)

DropLists ==
    { d \in SeqsUpTo(Files, MaxDrop) \ {<<>>} :
        \A i, j \in DOMAIN d : i # j => d[i] # d[j] }

PageFiles == {TxtFile, PdbqtFile}

\* The application: navigation, the visualize page, FileUploader and the
\* MoleculeViewer its page hosts.
Next ==
    \/ \E mount \in Mounts : Navigate(mount)
    \/ \E file \in PageFiles : handleResultFileChange(file)
    \/ \E file \in PageFiles : handlePdbqtFileChange(file)
    \/ handleSubmit
    \/ handleSubmitResolved
    \/ handleSubmitRejected
    \/ \E index \in 0..(MaxModels - 1) : handleModelChange(index)
    \/ \E index \in 0..(MaxModels - 1) : selectModelButton(index)
    \/ \E index \in 0..(MaxModels - 1) : selectModelCard(index)
    \/ toggleView
    \/ \E dropped \in DropLists : Drop(dropped)
    \/ \E index \in 0..1 : removeFile(index)
    \/ handleUpload
    \/ progressTick
    \/ handleUploadResolved
    \/ handleUploadRejected
    \/ processAnother

Spec == Init /\ [][Next]_vars

\* The grid MoleculeViewer on its own, mounted by FileUploader with any
\* dataset whose affinities lie in a range of MaxAffinitySpan tenths.
AffinityRange == ScenarioBest..(ScenarioBest + MaxAffinitySpan)

ViewerDataset(a) == ModelData(ModelsOf(a), SeqMin(a), Len(a))

Shown(data) ==
    /\ route = "upload"
    /\ variant = "root"
    /\ allowedFileTypes = AllowedFileTypesRoot
    /\ resultFile = Null
    /\ pdbqtFile = Null
    /\ loading = FALSE
    /\ error = NoString
    /\ files = << TxtFile, PdbqtFile >>
    /\ uploading = FALSE
    /\ cid = ""
    /\ solanaSignature = ""
    /\ uploadProgress = 100
    /\ pdfUrl = NoString
    /\ intervalActive = FALSE
    /\ visualizationData = data
    /\ activeModel = 0
    /\ showGrid = FALSE
    /\ scene = <<>>
    /\ backend = Idle
    /\ screen = NotRendered
    /\ mol3d = NoEffects
    /\ inFlight = 0
    /\ lastOp = [op |-> "handleUploadResolved", arg |-> 0]

InitViewer ==
    \E a \in SeqsUpTo(AffinityRange, MaxPoses) \ {<<>>} :
        Shown(ViewerDataset(a))

NextViewer ==
    \/ \E index \in 0..(MaxPoses - 1) : selectModelButton(index)
    \/ \E index \in 0..(MaxPoses - 1) : selectModelCard(index)
    \/ toggleView

SpecViewer == InitViewer /\ [][NextViewer]_vars

\* Mol3DViewer on its own: one pose with any atom list and any bond list
\* within the bounds, rendered in the single view.
RenderDataset(ids, bonds) ==
    ModelData(<< Model(1, ScenarioBest, AtomsOf(ids), bonds) >>,
              ScenarioBest, 1)

InitRender ==
    \E ids \in SeqsUpTo(AtomIds, MaxAtoms), bonds \in SeqsUpTo(Bond, MaxBonds) :
        Shown(RenderDataset(ids, bonds))

NextRender == Mol3DViewerEffect

SpecRender == InitRender /\ [][NextRender]_vars

\* Mol3DViewer colouring a pose whose atoms carry any element strings of
\* Elements: the table entries, lower-case symbols, the empty string,
\* symbols outside the table and names of members of Object.prototype.
Elements ==
    {"C", "N", "O", "H", "S", "P", "c", "n", "", "X", "Cl",
     "constructor", "toString", "__proto__"}

AtomsWith(elements) ==
    [i \in 1..Len(elements) |->
        [id |-> i, element |-> elements[i], x |-> i, y |-> 0, z |-> 0]]

InitElements ==
    \E elements \in SeqsUpTo(Elements, MaxAtoms) :
        Shown(ModelData(<< Model(1, ScenarioBest, AtomsWith(elements), <<>>) >>,
                        ScenarioBest, 1))

NextElements == Mol3DViewerEffect

SpecElements == InitElements /\ [][NextElements]_vars

\* The server with a file pair received and nothing parsed yet.
Received(scoreText, structureText) ==
    /\ route = "upload"
    /\ variant = "src"
    /\ allowedFileTypes = AllowedFileTypesRoot
    /\ resultFile = Null
    /\ pdbqtFile = Null
    /\ loading = FALSE
    /\ error = NoString
    /\ files = << TxtFile, PdbqtFile >>
    /\ uploading = TRUE
    /\ cid = ""
    /\ solanaSignature = ""
    /\ uploadProgress = 0
    /\ pdfUrl = NoString
    /\ intervalActive = TRUE
    /\ visualizationData = Null
    /\ activeModel = 0
    /\ showGrid = FALSE
    /\ scene = <<>>
    /\ backend = [Idle EXCEPT !.pc = "received", !.scoreText = scoreText,
                              !.structureText = structureText]
    /\ screen = NotRendered
    /\ mol3d = NoEffects
    /\ inFlight = 1
    /\ lastOp = [op |-> "handleUpload", arg |-> 0]

\* The score parser on every score text of up to MaxScoreLines lines: score
\* lines with a repeated index, an integer affinity and trailing columns,
\* a header, a line with a fractional index, a lone index, a blank line.
ScoreLines ==
    { << IntField(1), DecField(0 - 72) >>,
      << IntField(2), DecField(0 - 68) >>,
      << IntField(1), DecField(0 - 68), DecField(0), DecField(0) >>,
      << IntField(2), IntField(0 - 9) >>,
      << WordField("mode"), WordField("affinity") >>,
      << DecField(15), DecField(0 - 50) >>,
      << IntField(3) >>,
      << >> }

InitScores ==
    \E text \in SeqsUpTo(ScoreLines, MaxScoreLines) : Received(text, <<>>)

NextScores == parseScores

SpecScores == InitScores /\ [][NextScores]_vars

\* The structure parser on every structure text of up to MaxStructureLines
\* records: markers of two poses, an atom with an element column, an atom
\* whose element comes from its name, an atom with a malformed coordinate,
\* and two bond records.
AtomC1 == AtomLine(1, << "C", "1" >>, "C", DecField(0))
AtomN2 == AtomLine(2, << "N", "2" >>, "", DecField(12))
AtomMalformed == AtomLine(3, << "O", "3" >>, "O", WordField("1.2.3"))

StructureLines ==
    { ModelLine(1), ModelLine(2), EndModelLine, AtomC1, AtomN2, AtomMalformed,
      BondLine(1, 2), BondLine(2, 1) }

InitStructure ==
    \E text \in SeqsUpTo(StructureLines, MaxStructureLines) :
        Received(<<>>, text)

NextStructure == parseScores \/ parseStructure

SpecStructure == InitStructure /\ [][NextStructure]_vars

\* The whole transform on a score report of up to MaxScoreLines lines for
\* the poses 1, 2 and 3 and a structure file of up to MaxBlocks poses (or
\* without markers): poses with and without a score, scores with and
\* without a pose.
MergeScoreLines ==
    { << IntField(1), DecField(0 - 72) >>,
      << IntField(2), DecField(0 - 68) >>,
      << IntField(3), DecField(0 - 90) >> }

Block(index, atomLines) ==
    << ModelLine(index) >> \o atomLines \o << EndModelLine >>

Blocks ==
    { Block(index, atomLines) :
        index \in {1, 2},
        atomLines \in { << AtomC1 >>, << AtomC1, AtomN2 >>, << AtomMalformed >> } }

RECURSIVE Flatten(_)
Flatten(texts) ==
    IF texts = <<>> THEN <<>> ELSE Head(texts) \o Flatten(Tail(texts))

InitMerge ==
    \E scoreText \in SeqsUpTo(MergeScoreLines, MaxScoreLines),
       blocks \in SeqsUpTo(Blocks, MaxBlocks) \cup {<< << AtomC1, AtomN2 >> >>} :
        Received(scoreText, Flatten(blocks))

NextMerge == parseScores \/ parseStructure \/ mergeModels

SpecMerge == InitMerge /\ [][NextMerge]_vars


\* MoleculeViewer on its own, in either variant: its holder passes a
\* dataset or nothing.
Held(v, data) ==
    /\ route = "upload"
    /\ variant = v
    /\ allowedFileTypes =
           IF v = "root" THEN AllowedFileTypesRoot ELSE AllowedFileTypesSrc
    /\ resultFile = Null
    /\ pdbqtFile = Null
    /\ loading = FALSE
    /\ error = NoString
    /\ files = <<>>
    /\ uploading = FALSE
    /\ cid = ""
    /\ solanaSignature = ""
    /\ uploadProgress = 0
    /\ pdfUrl = NoString
    /\ intervalActive = FALSE
    /\ visualizationData = data
    /\ activeModel = 0
    /\ showGrid = FALSE
    /\ scene = <<>>
    /\ backend = Idle
    /\ screen = NotRendered
    /\ mol3d = NoEffects
    /\ inFlight = 0
    /\ lastOp = NoOp

InitComponent ==
    \E v \in {"root", "src"}, data \in Datasets \cup {Null} : Held(v, data)

NextComponent ==
    \/ renderMoleculeViewer
    \/ \E index \in 0..(MaxModels - 1) : selectModelButton(index)
    \/ \E index \in 0..(MaxModels - 1) : selectModelCard(index)
    \/ \E index \in 0..(MaxModels - 1) : handleModelChange(index)
    \/ toggleView

SpecComponent == InitComponent /\ [][NextComponent]_vars


\* MoleculeViewer with its Mol3DViewers over time, in either variant: a
\* dataset is shown, the user changes pose and view, React commits each
\* render before the next, the imports resolve when they do.
InitAsync ==
    \E v \in {"root", "src"},
       a \in SeqsUpTo(CatalogueAffinities, MaxModels) \ {<<>>} :
        Held(v, ViewerDataset(a))

NextAsync ==
    \/ Committed /\ \E index \in 0..(MaxModels - 1) : selectModelButton(index)
    \/ Committed /\ \E index \in 0..(MaxModels - 1) : selectModelCard(index)
    \/ Committed /\ \E index \in 0..(MaxModels - 1) : handleModelChange(index)
    \/ Committed /\ toggleView
    \/ commitEffects
    \/ importResolved

SpecAsync == InitAsync /\ [][NextAsync]_vars


\* FileUploader on either upload page: the user drops up to MaxDrop + 1
\* files at a time, removes files, starts the upload and leaves the results.
\* The files at hand are those of Files and a second .pdb file.
Pdb2File == File(<< "n" >> \o DotPdb, OctetStream, 4096)

UploaderFiles == Files \cup {Pdb2File}

UploaderDropLists ==
    { d \in SeqsUpTo(UploaderFiles, MaxDrop + 1) \ {<<>>} :
        \A i, j \in DOMAIN d : i # j => d[i] # d[j] }

InitUploader == \E mount \in Mounts : mount[1] = "upload" /\ Fresh(mount)

NextUploader ==
    \/ \E dropped \in UploaderDropLists : Drop(dropped)
    \/ \E index \in 0..1 : removeFile(index)
    \/ handleUpload
    \/ progressTick
    \/ handleUploadResolved
    \/ handleUploadRejected
    \/ processAnother

SpecUploader == InitUploader /\ [][NextUploader]_vars


-----------------------------------------------------------------------------
(* Properties.                                                             *)

ModelCount == Len(visualizationData.models)

PoseAffinity(index) == At(visualizationData.models, index).binding_affinity

IsChannel(c) == c \in 0..255

\* C1: whenever a viewer is shown, its activeModel is a position of the
\* dataset displayed, 0 <= activeModel < number of models, and it is 0 when
\* the viewer has just been mounted by a finished upload.
C1_ActiveModelInRange ==
    ViewerMounted =>
        /\ activeModel \in 0..(ModelCount - 1)
        /\ lastOp.op = "handleUploadResolved" => activeModel = 0

\* C2: while a request is in flight (the visualize page is loading, or
\* FileUploader is uploading) no dataset is held and no viewer is shown.
C2_PreviousDataDiscarded ==
    (loading \/ uploading) => (visualizationData = Null /\ ~ViewerMounted)

\* C3: when all poses of the dataset shown have the same affinity, every
\* pose gets the constant "#4ade80", whose channels are numbers in 0..255.
C3_DegenerateIsBestColor ==
    (ViewerMounted /\ minEnergy = maxEnergy) =>
        \A index \in 0..(ModelCount - 1) :
            /\ getEnergyColor(PoseAffinity(index)) = BestColorHex
            /\ GridCard(index).color = BestColorHex
            /\ \A k \in 1..3 :
                 IsChannel(CssChannels(getEnergyColor(PoseAffinity(index)))[k])

C3_Witness ==
    /\ ViewerMounted /\ showGrid
    /\ ModelCount = 2
    /\ minEnergy = maxEnergy
    /\ GridCard(1).color = BestColorHex

\* C4: for the range of the dataset shown, a lower affinity never has a
\* worse colour: red does not decrease with the affinity, green and blue do
\* not increase.
C4_ColorMonotonic ==
    ViewerMounted =>
        \A a, b \in minEnergy..maxEnergy :
            a < b =>
                LET ca == CssChannels(getEnergyColor(a))
                    cb == CssChannels(getEnergyColor(b))
                IN  ca[1] <= cb[1] /\ ca[2] >= cb[2] /\ ca[3] >= cb[3]

C4_Witness ==
    /\ ViewerMounted /\ showGrid
    /\ ModelCount = 3
    /\ PoseAffinity(0) < PoseAffinity(1) /\ PoseAffinity(1) < PoseAffinity(2)
    /\ CssChannels(getEnergyColor(PoseAffinity(0)))[1]
         < CssChannels(getEnergyColor(PoseAffinity(1)))[1]
    /\ CssChannels(getEnergyColor(PoseAffinity(1)))[1]
         < CssChannels(getEnergyColor(PoseAffinity(2)))[1]

C6_SameColorInBothViews ==
    (ViewerMounted /\ ViewerVariant = "grid") =>
        SingleView.color = GridCard(activeModel).color

C6_Witness ==
    /\ ViewerMounted /\ ViewerVariant = "grid"
    /\ lastOp.op = "toggleView" /\ ~showGrid
    /\ activeModel = 1
    /\ GridCard(1).color # GridCard(0).color
    /\ SingleView.color = GridCard(1).color

RenderedPose == At(visualizationData.models, activeModel)

AtomIdsOf(model) == { model.atoms[i].id : i \in DOMAIN model.atoms }

BondIsValid(model, bond) ==
    bond.atom1 \in AtomIdsOf(model) /\ bond.atom2 \in AtomIdsOf(model)

FirstPosition(model, id) ==
    CHOOSE i \in DOMAIN model.atoms :
        /\ model.atoms[i].id = id
        /\ \A j \in 1..(i - 1) : model.atoms[j].id # id

\* C7: the scene of a rendered pose has one sphere per atom, in order, then
\* one cylinder for each bond both of whose ids are ids of atoms of the
\* pose, in order, from the first atom with the one id to the first atom
\* with the other, then zoomTo and render.
C7_BondsNeedBothAtoms ==
    scene # <<>> =>
        LET model == RenderedPose
            n == Len(model.atoms)
            valid == SelectSeq(model.bonds, LAMBDA b : BondIsValid(model, b))
        IN  /\ Len(scene) = n + Len(valid) + 2
            /\ \A i \in 1..n :
                 /\ scene[i].call = "addSphere"
                 /\ scene[i].center = << i, 0, 0 >>
            /\ \A k \in 1..Len(valid) :
                 /\ scene[n + k].call = "addCylinder"
                 /\ scene[n + k].start
                      = << FirstPosition(model, valid[k].atom1), 0, 0 >>
                 /\ scene[n + k].end
                      = << FirstPosition(model, valid[k].atom2), 0, 0 >>
            /\ scene[Len(scene) - 1].call = "zoomTo"
            /\ scene[Len(scene)].call = "render"

C7_Witness ==
    /\ scene # <<>>
    /\ Len(RenderedPose.atoms) = 2
    /\ Len(RenderedPose.bonds) = 2
    /\ ~BondIsValid(RenderedPose, RenderedPose.bonds[1])
    /\ BondIsValid(RenderedPose, RenderedPose.bonds[2])
    /\ Len(scene) = 5
    /\ scene[3].call = "addCylinder"

\* C8: a step of toggleView leaves activeModel as it was.
C8_ToggleKeepsActiveModel ==
    [][(lastOp'.op = "toggleView" /\ showGrid' # showGrid)
          => activeModel' = activeModel]_vars

C8_Witness ==
    /\ lastOp.op = "toggleView"
    /\ showGrid
    /\ activeModel = 1

\* C9: a click on the card at position i in grid view sets activeModel to i
\* and leaves the grid shown; a switch from the grid to the single view then
\* shows the pose at the position activeModel had.
C9_CardSelectsPosition ==
    /\ [][lastOp'.op = "selectModelCard"
            => /\ activeModel' = lastOp'.arg
               /\ showGrid /\ showGrid']_vars
    /\ [][(lastOp'.op = "toggleView" /\ showGrid /\ ~showGrid')
            => /\ SingleView' # TypeError
               /\ SingleView'.pose = activeModel
               /\ SingleView'.energy = PoseAffinity(activeModel)]_vars

C9_Witness ==
    /\ lastOp = [op |-> "selectModelCard", arg |-> 1]
    /\ showGrid
    /\ activeModel = 1
    /\ At(visualizationData.models, 1).model_id # 1

\* C10: in every state of a viewer, the best binding energy and the model
\* count it shows are the fields of the summary of its dataset.
C10_SummaryVerbatim ==
    ViewerMounted =>
        LET shown == IF ViewerVariant = "grid"
                     THEN GridViewerView.summary
                     ELSE SelectViewerView.summary
        IN  /\ shown.bestEnergy
               = visualizationData.summary.best_binding_affinity
            /\ shown.totalModels = visualizationData.summary.model_count

C10_Witness ==
    /\ ViewerMounted /\ ViewerVariant = "grid"
    /\ showGrid /\ activeModel = 1
    /\ visualizationData.summary.model_count # ModelCount
    /\ visualizationData.summary.best_binding_affinity # minEnergy
    /\ GridViewerView.summary.totalModels = 3

\* The colour the element table of the renderer contract gives an element:
\* the six table entries, and the fallback for every other string.
TableColor(element) ==
    IF element = "C" THEN "gray"
    ELSE IF element = "N" THEN "blue"
    ELSE IF element = "O" THEN "red"
    ELSE IF element = "H" THEN "white"
    ELSE IF element = "S" THEN "yellow"
    ELSE IF element = "P" THEN "orange"
    ELSE "pink"

\* C12: every sphere of a rendered pose has the colour the element table
\* gives the element of its atom, which is the fallback "pink" for every
\* string other than C, N, O, H, S and P.
C12_ElementColorTotal ==
    scene # <<>> =>
        \A i \in 1..Len(RenderedPose.atoms) :
            scene[i].color = TableColor(RenderedPose.atoms[i].element)

CallsNamed(name) == { i \in DOMAIN scene : scene[i].call = name }

\* C11: the scene of a rendered pose is a run of addSphere calls, one per
\* atom in atom-list order (radius 0.5, the colour of the element), then a
\* run of addCylinder calls (radius 0.2, gray) whose endpoints follow the
\* bond list in order, then zoomTo, then render: no sphere comes after a
\* cylinder, and zoomTo and render occur once each, as the last two calls.
C11_RenderOrder ==
    scene # <<>> =>
        LET model == RenderedPose
            n == Len(model.atoms)
            last == Len(scene)
            drawn == SelectSeq(model.bonds, LAMBDA b : BondIsValid(model, b))
        IN  /\ CallsNamed("addSphere") = 1..n
            /\ CallsNamed("addCylinder") = (n + 1)..(last - 2)
            /\ CallsNamed("zoomTo") = {last - 1}
            /\ CallsNamed("render") = {last}
            /\ \A i \in 1..n :
                 /\ scene[i].center
                      = << model.atoms[i].x, model.atoms[i].y, model.atoms[i].z >>
                 /\ scene[i].radius = 5
                 /\ scene[i].color = TableColor(model.atoms[i].element)
            /\ \A i, j \in CallsNamed("addSphere") \cup CallsNamed("addCylinder") :
                 (scene[i].call = "addCylinder" /\ scene[j].call = "addSphere")
                     => j < i
            /\ \A k \in 1..(last - 2 - n) :
                 /\ scene[n + k].radius = 2
                 /\ scene[n + k].color = "gray"
                 /\ k <= Len(drawn)
                 /\ scene[n + k].start
                      = << FirstPosition(model, drawn[k].atom1), 0, 0 >>

C11_Witness ==
    /\ lastOp.op = "Mol3DViewerEffect"
    /\ Len(RenderedPose.atoms) = 2
    /\ RenderedPose.atoms[1].element = "N"
    /\ RenderedPose.atoms[2].element = "X"
    /\ Len(scene) = 6
    /\ scene[1].color = "blue" /\ scene[2].color = "pink"
    /\ scene[3].call = "addCylinder" /\ scene[4].call = "addCylinder"
    /\ scene[3].start # scene[4].start
    /\ scene[5].call = "zoomTo" /\ scene[6].call = "render"

\* Line i of the score text declares pose index k: an integer literal k
\* followed by a numeric field.
Declares(i, k) ==
    LET line == backend.scoreText[i]
    IN  /\ Len(line) >= 2
        /\ "int" \in DOMAIN line[1] /\ line[1].int = k
        /\ "int" \in DOMAIN line[2] \/ "dec" \in DOMAIN line[2]

DeclaredIndices ==
    { k \in 0..9 : \E i \in DOMAIN backend.scoreText : Declares(i, k) }

\* C16: once the score text is parsed, the indices mapped are exactly those
\* some line declares, each mapped to the value of the last line declaring
\* it; a text without such a line gives the empty mapping.
C16_LastScoreWins ==
    backend.pc = "scored" =>
        /\ DOMAIN backend.scoreMap = DeclaredIndices
        /\ \A k \in DeclaredIndices :
             \E i \in DOMAIN backend.scoreText :
                /\ Declares(i, k)
                /\ \A j \in DOMAIN backend.scoreText : Declares(j, k) => j <= i
                /\ backend.scoreMap[k] = Tenths(backend.scoreText[i][2])
        /\ DeclaredIndices = {} => backend.scoreMap = <<>>

C16_Witness ==
    /\ backend.pc = "scored"
    /\ Len(backend.scoreText) = 3
    /\ Declares(1, 1) /\ Declares(3, 1)
    /\ ~ScoreLineMatches(backend.scoreText[2])
    /\ backend.scoreText[1][2] = DecField(0 - 72)
    /\ DOMAIN backend.scoreMap = {1}
    /\ backend.scoreMap[1] = 0 - 68

StructureText == backend.structureText

MarkerAt(i) ==
    StructureText[i].rec = "MODEL" \/ StructureText[i].rec = "ENDMDL"

Marked == \E i \in DOMAIN StructureText : MarkerAt(i)

\* Line i is an atom line whose three coordinates are numbers.
AtomAt(i) ==
    /\ StructureText[i].rec = "ATOM"
    /\ \A c \in {StructureText[i].x, StructureText[i].y, StructureText[i].z} :
         "word" \notin DOMAIN c

BondAt(i) == StructureText[i].rec = "CONECT"

\* The index of the pose whose markers enclose line i, 0 if none does: the
\* index of the nearest marker before i, if that is a begin marker.
EnclosingPose(i) ==
    LET before == { j \in 1..(i - 1) : MarkerAt(j) }
    IN  IF before = {} THEN 0
        ELSE LET j == CHOOSE m \in before : \A o \in before : o <= m
             IN  IF StructureText[j].rec = "MODEL"
                 THEN StructureText[j].index ELSE 0

BelongsTo(i, k) == IF Marked THEN EnclosingPose(i) = k ELSE k = 1

LinePositions == [i \in 1..Len(StructureText) |-> i]

\* The serial ids of the atoms of pose k, and its declared bonds, as the
\* file lists them.
AtomSerialsOf(k) ==
    LET at == SelectSeq(LinePositions, LAMBDA i : AtomAt(i) /\ BelongsTo(i, k))
    IN  [n \in 1..Len(at) |-> StructureText[at[n]].serial]

DeclaredBondsOf(k) ==
    LET at == SelectSeq(LinePositions, LAMBDA i : BondAt(i) /\ BelongsTo(i, k))
    IN  [n \in 1..Len(at) |->
            [atom1 |-> StructureText[at[n]].atom1,
             atom2 |-> StructureText[at[n]].atom2]]

\* A parsed pose holds the atoms of its index in file order, and its
\* declared bonds in file order when it declares any.
KeepsFileOrder(pose) ==
    /\ [n \in 1..Len(pose.atoms) |-> pose.atoms[n].id]
         = AtomSerialsOf(pose.index)
    /\ DeclaredBondsOf(pose.index) # <<>>
         => pose.bonds = DeclaredBondsOf(pose.index)

\* With markers: one pose per index, every enclosed atom in the pose of its
\* markers, every pose in file order.
MarkedPosesHold ==
    LET poses == backend.structureMap
    IN  /\ \A i, j \in DOMAIN poses : poses[i].index = poses[j].index => i = j
        /\ \A i \in DOMAIN StructureText :
             (AtomAt(i) /\ EnclosingPose(i) # 0)
                 => \E n \in DOMAIN poses : poses[n].index = EnclosingPose(i)
        /\ \A n \in DOMAIN poses : KeepsFileOrder(poses[n])

ImplicitPoseHolds ==
    LET poses == backend.structureMap
    IN  /\ Len(poses) = 1
        /\ poses[1].index = 1
        /\ KeepsFileOrder(poses[1])

\* C17, as claimed: a structure text without markers parses to exactly one
\* pose, with index 1, holding the atoms of the file in file order; with
\* markers every atom is in the pose whose markers enclose it, and atoms
\* and bonds keep file order.
C17_ImplicitPoseAlways ==
    backend.pc = "structured" =>
        IF Marked THEN MarkedPosesHold ELSE ImplicitPoseHolds

\* C17, amended: as above, except that a text without markers and without
\* any atom or bond record parses to the empty mapping.
C17_ImplicitPoseUnlessEmpty ==
    backend.pc = "structured" =>
        IF Marked THEN MarkedPosesHold
        ELSE IF \E i \in DOMAIN StructureText : AtomAt(i) \/ BondAt(i)
        THEN ImplicitPoseHolds
        ELSE backend.structureMap = <<>>

C17_Witness ==
    /\ backend.pc = "structured"
    /\ backend.structureText = << AtomN2, AtomC1, AtomMalformed, BondLine(2, 1) >>
    /\ Len(backend.structureMap) = 1
    /\ backend.structureMap[1].index = 1
    /\ Len(backend.structureMap[1].atoms) = 2
    /\ backend.structureMap[1].atoms[1].id = 2
    /\ backend.structureMap[1].atoms[1].element = "N"
    /\ backend.structureMap[1].atoms[2].id = 1
    /\ backend.structureMap[1].bonds = << [atom1 |-> 2, atom2 |-> 1] >>

\* The merge has returned a dataset.
Merged == backend.pc = "merged" /\ "models" \in DOMAIN backend.result

IsScored(affinity) == affinity # Unscored

\* a <= b on affinities: false when either is the unscored sentinel, as
\* every comparison with NaN is.
AffinityLeq(a, b) == IsScored(a) /\ IsScored(b) /\ a <= b

StructureIndices ==
    { backend.structureMap[i].index : i \in DOMAIN backend.structureMap }

\* C13, as claimed: model_count is the number of models and
\* best_binding_affinity is the minimum of binding_affinity over models: the
\* affinity of some model, and no greater than the affinity of any model.
C13_SummaryOverModels ==
    Merged =>
        LET models == backend.result.models
            summary == backend.result.summary
        IN  /\ summary.model_count = Len(models)
            /\ \E i \in DOMAIN models :
                 models[i].binding_affinity = summary.best_binding_affinity
            /\ \A i \in DOMAIN models :
                 AffinityLeq(summary.best_binding_affinity,
                             models[i].binding_affinity)

\* C13, amended: model_count is the number of models and
\* best_binding_affinity is the minimum of binding_affinity over the scored
\* models; it is the minimum over all models when every model is scored.
C13_SummaryOverScoredModels ==
    Merged =>
        LET models == backend.result.models
            summary == backend.result.summary
            scored == { i \in DOMAIN models : IsScored(models[i].binding_affinity) }
        IN  /\ summary.model_count = Len(models)
            /\ IsScored(summary.best_binding_affinity)
            /\ \E i \in scored :
                 models[i].binding_affinity = summary.best_binding_affinity
            /\ \A i \in scored :
                 summary.best_binding_affinity <= models[i].binding_affinity
            /\ scored = DOMAIN models =>
                 \A i \in DOMAIN models :
                    AffinityLeq(summary.best_binding_affinity,
                                models[i].binding_affinity)

C13_Witness ==
    /\ Merged
    /\ Len(backend.result.models) = 2
    /\ backend.result.models[1].binding_affinity = 0 - 68
    /\ backend.result.models[2].binding_affinity = Unscored
    /\ backend.result.summary
         = [best_binding_affinity |-> 0 - 68, model_count |-> 2]

\* C14: the dataset has exactly one Model per pose of the structure map, in
\* its order and with its atoms and bonds; a pose without a score carries
\* the unscored sentinel and does not take part in best_binding_affinity; a
\* score without a pose gives no Model and is not counted.
C14_OneModelPerStructurePose ==
    Merged =>
        LET models == backend.result.models
            summary == backend.result.summary
            poses == backend.structureMap
            scores == backend.scoreMap
        IN  /\ Len(models) = Len(poses)
            /\ \A i \in DOMAIN poses :
                 /\ models[i].model_id = poses[i].index
                 /\ models[i].atoms = poses[i].atoms
                 /\ models[i].bonds = poses[i].bonds
                 /\ models[i].binding_affinity =
                      IF poses[i].index \in DOMAIN scores
                      THEN scores[poses[i].index] ELSE Unscored
            /\ summary.best_binding_affinity
                 \in { scores[k] : k \in DOMAIN scores \cap StructureIndices }
            /\ \A k \in DOMAIN scores \cap StructureIndices :
                 summary.best_binding_affinity <= scores[k]
            /\ \A k \in DOMAIN scores \ StructureIndices :
                 \A i \in DOMAIN models : models[i].model_id # k
            /\ summary.model_count = Cardinality(StructureIndices)

C14_Witness ==
    /\ Merged
    /\ DOMAIN backend.scoreMap = {1, 3}
    /\ backend.scoreMap[3] < backend.scoreMap[1]
    /\ StructureIndices = {1, 2}
    /\ Len(backend.result.models) = 2
    /\ backend.result.models[1].model_id = 2
    /\ backend.result.models[1].binding_affinity = Unscored
    /\ backend.result.models[2].model_id = 1
    /\ backend.result.summary
         = [best_binding_affinity |-> backend.scoreMap[1], model_count |-> 2]

C18_NoDataMessage ==
    (lastOp.op = "MoleculeViewer" /\ visualizationData = Null)
        => screen = NoDataMessage

\* C19: in the grid view, once the render is committed and no import is
\* awaited any more, every card holds one canvas with the pose of the card
\* drawn in it, with no further step of the user.
C19_GridCardsPopulated ==
    (ViewerMounted /\ Committed /\ RenderedProps.grid
        /\ mol3d.pending = <<>>)
        => \A i \in 1..Len(visualizationData.models) :
              mol3d.canvases.cards[i] =
                  << Canvas([data |-> visualizationData, pose |-> i - 1]) >>

\* C20: the container of the single view never holds more than one canvas,
\* and once the render is committed and no import is awaited any more, the
\* canvas it holds shows the pose of the current activeModel.
C20_OneCanvasLatestPose ==
    /\ Len(mol3d.canvases.single) <= 1
    /\ (ViewerMounted /\ Committed /\ ~RenderedProps.grid
            /\ mol3d.pending = <<>>)
        => mol3d.canvases.single =
               << Canvas([data |-> visualizationData,
                          pose |-> activeModel]) >>

\* The pose was changed while an import was awaited, the callback of the
\* older effect ran after it, and the canvas shows the later pose.
C20_Witness ==
    /\ mol3d.late
    /\ Committed /\ ~RenderedProps.grid
    /\ mol3d.pending = <<>>
    /\ activeModel = 1
    /\ Len(mol3d.canvases.single) = 1
    /\ mol3d.canvases.single[1].pose = 1

Range(s) == {s[i] : i \in DOMAIN s}

\* The "Process Files" button is shown and enabled (FileUploader.tsx:437).
ProcessFilesEnabled == SelectionShown /\ Len(files) = 2

RequiredDrops ==
    { << TxtFile >>, << PdbqtFile >>,
      << TxtFile, PdbqtFile >>, << PdbqtFile, TxtFile >> }

\* C21: the selection holding nothing, or the other one of the two files,
\* a drop of the .txt file, of the .pdbqt file or of both adds what was
\* dropped, and with both files selected "Process Files" is enabled.
C21_RequiredFilesSelectable ==
    [][ \A d \in RequiredDrops :
          ( /\ Len(files) + Len(d) <= 2
            /\ Range(files) \subseteq ({TxtFile, PdbqtFile} \ Range(d))
            /\ Drop(d) )
          => /\ files' = files \o d
             /\ Len(files') = 2 => ProcessFilesEnabled' /\ HasRequiredFiles'
      ]_vars

\* C22: the selected file list holds at most two files, at most one whose
\* lower-cased name ends in .txt and at most one whose lower-cased name
\* ends in .pdbqt.
C22_SelectionShape ==
    /\ Len(files) <= 2
    /\ Len(SelectSeq(files, isTxt)) <= 1
    /\ Len(SelectSeq(files, isPdbqt)) <= 1

\* A drop has completed the selection, its .txt file named in upper case.
C22_Witness ==
    /\ lastOp.op = "onDrop"
    /\ files = << UpperTxtFile, PdbqtFile >>

\* The conditions under which a drop is to add nothing.
Refused(d) ==
    \/ Len(files) + Len(d) > 2
    \/ \E i \in DOMAIN d : ~IsAllowedType(d[i]) \/ IsOversized(d[i])
    \/ Len(SelectSeq(files \o d, isTxt)) > 1
    \/ Len(SelectSeq(files \o d, isPdbqt)) > 1

\* C23: a drop that would exceed two files, or holds a file of a
\* disallowed type or over the size limit, or would give a second .txt or
\* a second .pdbqt, adds none of its files and leaves the selection, the
\* results and the upload state as they are.
C23_DropAllOrNothing ==
    [][ \A d \in UploaderDropLists :
          (Refused(d) /\ Drop(d))
          => UNCHANGED <<files, visualizationData, pdfUrl, cid,
                         solanaSignature, uploading, uploadProgress>>
      ]_vars

\* C24: a step of handleUpload sends a request and enters the uploading
\* state only with a .txt file and a .pdbqt file selected; with either
\* missing it leaves uploading false and progress, results and the file
\* list as they are.
C24_UploadNeedsBothFiles ==
    [][ (lastOp'.op = "handleUpload" /\ route = "upload")
        => /\ (uploading' \/ inFlight' > inFlight) => HasRequiredFiles
           /\ ~HasRequiredFiles
                => /\ ~uploading'
                   /\ UNCHANGED <<uploading, uploadProgress, files, pdfUrl,
                                  visualizationData, inFlight>>
      ]_vars

\* "Process Files" was pressed with two files selected that are not a
\* .txt file and a .pdbqt file.
C24_Witness ==
    /\ lastOp.op = "handleUpload"
    /\ Len(files) = 2
    /\ ~HasRequiredFiles
    /\ ~uploading /\ inFlight = 0

UploadFails ==
    /\ route = "upload" /\ uploading
    /\ \/ lastOp'.op = "handleUploadRejected"
       \/ lastOp' = [op |-> "handleUploadResolved", arg |-> 1]

\* C26: after an upload that fails, FileUploader is not uploading, holds no
\* visualization data and no PDF URL and holds the files it held, so that
\* the selection is shown with "Process Files" enabled.
C26_FailedUploadBackToSelection ==
    [][ UploadFails
        => /\ ~uploading'
           /\ visualizationData' = Null
           /\ pdfUrl' = NoString
           /\ files' = files
           /\ SelectionShown' /\ ProcessFilesEnabled' ]_vars

\* The handling of a response threw and the two files are still selected.
C26_Witness ==
    /\ lastOp = [op |-> "handleUploadResolved", arg |-> 1]
    /\ SelectionShown
    /\ Len(files) = 2 /\ HasRequiredFiles

\* C27: when the handling of a response ends with results displayed, the
\* content id and the signature held, which renderResults displays, are
\* those of that response: none where the response carries none.
C27_VerificationOfSameResponse ==
    [][ \A data \in Responses :
          ( /\ route = "upload" /\ variant = "src" /\ uploading
            /\ lastOp'.op = "handleUploadResolved"
            /\ ResultsShown'
            /\ UploadResponse(data) )
          => /\ cid' = data.cid
             /\ solanaSignature' = data.solana_signature ]_vars

=========================================================================
